---- MODULE Spec2Model ----
(***************************************************************************)
(* A model of the eStation2 CLMS clipping tools:                           *)
(*   - clip_all_vars_netcdf4 (window selection and coordinate copy),       *)
(*   - the processed-file ledger of automation_script.py,                  *)
(*   - the driver batch of automation_script.py,                           *)
(*   - the quicklook generators and thumbnail_view,                        *)
(*   - the XML template substitution,                                      *)
(*   - the target dates of automation_script.py,                           *)
(*   - the clip, quicklook, XML and zip pipeline of a product module.      *)
(* Coordinates are integers (fixed-point degrees); indices are 0-based as  *)
(* in the Python source, sequences are 1-based as in TLA+.                 *)
(***************************************************************************)
EXTENDS Integers, Sequences, FiniteSets, TLC

VARIABLES
    src,              \* the source NetCDF file handed to clip_all_vars_netcdf4
    clip,             \* what the last clip_all_vars_netcdf4 call computed and wrote
    ledger,           \* text of a ledger file (sequence of characters), or NoFile
    written,          \* names appended to the ledger by successful writes
    loaded,           \* result of the last load_processed_list call
    out_ledger,       \* text of the ledger of produced zip archives
    today,            \* the dekad the driver runs in (decides every target date)
    mount,            \* products whose source file for the target date is on the mount
    pc,               \* driver position: 0 not started, k before the k-th call, 11 finished
    crashed,          \* an exception left run_clipper_process and ended the process
    outcome,          \* per call of the main block, what happened in this invocation
    prev,             \* the calls that failed in the previous invocation, and its dekad
    nc,               \* the NetCDF file a quicklook is made from
    ql,               \* what the last quicklook call returned and wrote
    xml,              \* the XML template handed to the substitution
    xmlcall,          \* what the last substitution call returned and wrote
    cal,              \* an execution date and the target date computed from it
    pipe              \* one run of a product pipeline: its position and its files

vars == <<src, clip, ledger, written, loaded, out_ledger, today, mount, pc, crashed,
          outcome, prev, nc, ql, xml, xmlcall, cal, pipe>>

clipVars == <<src, clip>>
ledgerVars == <<written, loaded>>
driverVars == <<out_ledger, today, mount, pc, crashed, outcome, prev>>
qlVars == <<nc, ql>>
xmlVars == <<xml, xmlcall>>

\* ------------------------------------------------------------------ bounds

\* longest coordinate axis of a source grid
MaxLen == 3
\* largest requested clip_width / clip_height
MaxExtent == 4
\* longest name written to a ledger in the ledger specification
MaxNameLen == 2
\* most lines a ledger holds in the ledger specification
MaxLines == 2
\* number of dekads the driver lives through
MaxDekad == 2
\* number of pixels of a quicklook band
MaxPixels == 2

\* longest text of an XML element or attribute value
MaxText == 4

\* ------------------------------------------------------------ small helpers

Min(a, b) == IF a < b THEN a ELSE b
Max(a, b) == IF a > b THEN a ELSE b
Abs(x) == IF x < 0 THEN 0 - x ELSE x

\* ---------------------------------------------------- the source grid files

\* lat runs north to south (decreasing), lon west to east (increasing),
\* both on a regular grid of step 2 so that an origin may fall between nodes
LatAxis(n) == [i \in 1..n |-> 2 * (MaxLen - i)]
LonAxis(n) == [i \in 1..n |-> 2 * (i - 1)]

\* coordinates a caller may ask for: on a node, between two nodes, outside
Coords == (0 - 1) .. (2 * MaxLen - 1)

\* what can go wrong in a call: with the input file (unreadable, a global
\* attribute or a coordinate variable missing), with the data_vars argument
\* (left at None) or while the output is written
Faults == {"none", "unreadable", "no_title", "no_history", "no_lat", "no_lon",
           "data_vars_none", "write_error"}

\* the dimensions of the requested data variable, in the order the source
\* declares them, and the length of the time axis
GridVariable == <<"time", "lat", "lon">>
VarDims ==
    {<<"time", "lat", "lon">>, <<"lat", "lon">>, <<"time", "lat">>, <<"time", "lon">>,
     <<"time">>, <<"lat">>, <<"lon">>}

SrcFile(fault, n, m, var_dims) ==
    [fault |-> fault, lat |-> LatAxis(n), lon |-> LonAxis(m),
     var_dims |-> var_dims, time |-> 1]

SrcFiles ==
    {SrcFile("none", n, m, GridVariable) : n \in 0..MaxLen, m \in 0..MaxLen}
    \cup
    {SrcFile(f, MaxLen, MaxLen, GridVariable) : f \in Faults \ {"none"}}

\* the source files of the variable copy: a full grid whose requested variable
\* has any of the dimension combinations
VarFiles == {SrcFile("none", MaxLen, MaxLen, d) : d \in VarDims}

\* ------------------------------------------------- numpy / Python primitives

\* np.argmin(np.abs(values - target)): 0-based index of the first minimum
argmin_abs(values, target) ==
    CHOOSE i \in 0..(Len(values) - 1) :
        /\ \A j \in 0..(Len(values) - 1) :
              Abs(values[i + 1] - target) <= Abs(values[j + 1] - target)
        /\ \A j \in 0..(i - 1) :
              Abs(values[j + 1] - target) > Abs(values[i + 1] - target)

\* a Python slice is <<start, stop>>, and <<>> stands for slice(None)
SliceAll == <<>>

\* Python's normalisation of one slice bound against a sequence of length n
SliceBound(b, n) ==
    IF b < 0 THEN Max(b + n, 0) ELSE Min(b, n)

\* values[sl]: Python slicing, which clamps out-of-range bounds silently
PySlice(values, sl) ==
    IF sl = SliceAll THEN values
    ELSE LET a == SliceBound(sl[1], Len(values))
             b == SliceBound(sl[2], Len(values))
         IN  IF a >= b THEN <<>>
             ELSE [i \in 1..(b - a) |-> values[a + i]]

\* ------------------------------------------- clip_all_vars_netcdf4: windows

\* "Remove one pixel from the left": lon start advanced by one, kept in range
LonEdgeShift_NoShift(idx, n) == idx
LonEdgeShift(idx, n) == Min(idx + 1, n - 1)

\* "Ensure indices are within bounds of the original data"
ClampEnd_Unclamped(end, n) == end
ClampEnd(end, n) == Min(end, n)

\* "Adjust start index if the calculated end index exceeds the bounds"
PullBack_Never(start, end, extent) == start
PullBack(start, end, extent) ==
    IF (end - start) < extent THEN Max(0, end - extent) ELSE start

\* the size-mismatch test that guards the warning
SizeMismatch_HeightOnly(output_height, output_width, clip_height, clip_width) ==
    output_height # clip_height
SizeMismatch(output_height, output_width, clip_height, clip_width) ==
    output_height # clip_height \/ output_width # clip_width

\* origin + extent mode: the window on both axes, the output sizes, the warning
OriginExtentWindow(lat_values, lon_values, origin_lat, origin_lon, clip_width, clip_height) ==
    LET lat_start_idx0 == argmin_abs(lat_values, origin_lat)
        lon_start_idx0 == LonEdgeShift(argmin_abs(lon_values, origin_lon), Len(lon_values))
        adjusted_clip_width == clip_width
        lat_end_idx == ClampEnd(lat_start_idx0 + clip_height, Len(lat_values))
        lon_end_idx == ClampEnd(lon_start_idx0 + adjusted_clip_width, Len(lon_values))
        lat_start_idx == PullBack(lat_start_idx0, lat_end_idx, clip_height)
        lon_start_idx == PullBack(lon_start_idx0, lon_end_idx, adjusted_clip_width)
        lat_indices == <<lat_start_idx, lat_end_idx>>
        lon_indices == <<lon_start_idx, lon_end_idx>>
        output_height == Len(PySlice(lat_values, lat_indices))
        output_width == Len(PySlice(lon_values, lon_indices))
    IN  [lat_indices |-> lat_indices, lon_indices |-> lon_indices,
         output_height |-> output_height, output_width |-> output_width,
         warned |-> SizeMismatch(output_height, output_width, clip_height, adjusted_clip_width)]

\* range mode, lon axis: end index of the window ("Add one pixel to the right")
RangeLonEnd_Unclamped(idx, n) == idx + 1 + 1
RangeLonEnd(idx, n) == Min(idx + 1 + 1, n)

\* range mode, lat axis: slice(min(start, end), max(start, end)) with end = nearest + 1
RangeLatIndices(lat_values, lat_range) ==
    LET lat_start_index == argmin_abs(lat_values, lat_range[1])
        lat_end_index == argmin_abs(lat_values, lat_range[2]) + 1
    IN  <<Min(lat_start_index, lat_end_index), Max(lat_start_index, lat_end_index)>>

\* range mode, lon axis: the same with the one-pixel edge correction on both ends
RangeLonIndices(lon_values, lon_range) ==
    LET lon_start_index == Min(argmin_abs(lon_values, lon_range[1]) + 1, Len(lon_values) - 1)
        lon_end_index == RangeLonEnd(argmin_abs(lon_values, lon_range[2]), Len(lon_values))
    IN  <<Min(lon_start_index, lon_end_index), Max(lon_start_index, lon_end_index)>>

\* a range argument is None or a pair of coordinates
None == <<>>
Ranges == {None} \cup (Coords \X Coords)

\* range mode: a missing range leaves that axis whole
RangeWindow(lat_values, lon_values, lat_range, lon_range) ==
    LET lat_indices == IF lat_range # None THEN RangeLatIndices(lat_values, lat_range)
                       ELSE SliceAll
        lon_indices == IF lon_range # None THEN RangeLonIndices(lon_values, lon_range)
                       ELSE SliceAll
    IN  [lat_indices |-> lat_indices, lon_indices |-> lon_indices,
         output_height |-> Len(PySlice(lat_values, lat_indices)),
         output_width |-> Len(PySlice(lon_values, lon_indices)),
         warned |-> FALSE]

\* no clipping parameter at all: a full copy
FullWindow(lat_values, lon_values) ==
    [lat_indices |-> SliceAll, lon_indices |-> SliceAll,
     output_height |-> Len(lat_values), output_width |-> Len(lon_values),
     warned |-> FALSE]

\* the first exception the body raises, "none" if none: opening the file,
\* src.title / src.history, src.variables['lat'] / ['lon'], np.argmin of an
\* empty axis, a write to the output, the loop over data_vars
BodyException(file, lat_used, lon_used) ==
    CASE file.fault = "unreadable" -> "OSError"
      [] file.fault = "no_title" -> "AttributeError"
      [] file.fault = "no_history" -> "AttributeError"
      [] file.fault = "no_lat" -> "KeyError"
      [] file.fault = "no_lon" -> "KeyError"
      [] (lat_used /\ Len(file.lat) = 0) \/ (lon_used /\ Len(file.lon) = 0) -> "ValueError"
      [] file.fault = "write_error" -> "RuntimeError"
      [] file.fault = "data_vars_none" -> "TypeError"
      [] OTHER -> "none"

\* the classes "except Exception" handles
ExceptionClasses_OnlyOSError == {"OSError"}
ExceptionClasses ==
    {"OSError", "AttributeError", "KeyError", "ValueError", "TypeError", "RuntimeError"}

\* state before the call (one call is followed per source file: the function
\* keeps no state between calls)
NoClip ==
    [status |-> "idle", mode |-> "none", exc |-> "none", propagated |-> FALSE,
     origin_lat |-> 0, origin_lon |-> 0, clip_width |-> 0, clip_height |-> 0,
     lat_range |-> None, lon_range |-> None,
     lat_indices |-> SliceAll, lon_indices |-> SliceAll,
     output_height |-> 0, output_width |-> 0, warned |-> FALSE,
     dim_lat |-> 0, dim_lon |-> 0, out_lat |-> <<>>, out_lon |-> <<>>,
     var_declared |-> <<>>, var_data |-> <<>>, var_written |-> FALSE]

\* chunksizes handed to createVariable for every data variable
new_chunks == <<1, 1920, 1920>>

\* the copy of the requested data variable into an output whose lat and lon
\* dimensions have the window lengths: createVariable declares it on the
\* dimensions of {time, lat, lon} it has (and refuses chunksizes of another
\* rank), then the data is assigned: the window of a (time, lat, lon) or
\* (lat, lon) variable, the whole variable otherwise. The grids of the model
\* stand for grids no smaller than a chunk.
VarCopy(file, output_height, output_width) ==
    LET var_dims == file.var_dims
        has(d) == \E i \in 1..Len(var_dims) : var_dims[i] = d
        OutLen(d) == CASE d = "time" -> file.time
                       [] d = "lat" -> output_height
                       [] d = "lon" -> output_width
        SrcLen(d) == CASE d = "time" -> file.time
                       [] d = "lat" -> Len(file.lat)
                       [] d = "lon" -> Len(file.lon)
        declared == [i \in 1..Len(var_dims) |-> OutLen(var_dims[i])]
        data == IF has("time") /\ has("lat") /\ has("lon")
                THEN <<file.time, output_height, output_width>>
                ELSE IF has("lat") /\ has("lon")
                THEN <<output_height, output_width>>
                ELSE [i \in 1..Len(var_dims) |-> SrcLen(var_dims[i])]
    IN  IF Len(new_chunks) # Len(var_dims)
        THEN [exc |-> "ValueError", declared |-> <<>>, data |-> <<>>]
        ELSE IF data # declared
        THEN [exc |-> "ValueError", declared |-> declared, data |-> <<>>]
        ELSE [exc |-> "none", declared |-> declared, data |-> data]

\* the whole call: the request is recorded, the body runs up to its first
\* exception, the handler prints it; the window, the output dimensions and the
\* output coordinate variables are those the body wrote, the data variable
\* comes last
ClipCall(file, request, w, lat_used, lon_used) ==
    LET exc == BodyException(file, lat_used, lon_used)
        copy == VarCopy(file, w.output_height, w.output_width)
        windowed == [request EXCEPT !.lat_indices = w.lat_indices,
                                    !.lon_indices = w.lon_indices,
                                    !.output_height = w.output_height,
                                    !.output_width = w.output_width,
                                    !.warned = w.warned,
                                    !.dim_lat = w.output_height,
                                    !.dim_lon = w.output_width,
                                    !.out_lat = PySlice(file.lat, w.lat_indices),
                                    !.out_lon = PySlice(file.lon, w.lon_indices)]
    IN  IF exc # "none"
        THEN [request EXCEPT !.status = "error", !.exc = exc,
                             !.propagated = exc \notin ExceptionClasses]
        ELSE IF copy.exc # "none"
        THEN [windowed EXCEPT !.status = "error", !.exc = copy.exc,
                              !.propagated = copy.exc \notin ExceptionClasses,
                              !.var_declared = copy.declared]
        ELSE [windowed EXCEPT !.status = "ok",
                              !.var_declared = copy.declared,
                              !.var_data = copy.data,
                              !.var_written = TRUE]

\* the window [start, end) a slice selects on an axis of length n
Window(sl, n) == IF sl = SliceAll THEN <<0, n>> ELSE sl

InitClip ==
    /\ src \in SrcFiles
    /\ clip = NoClip

\* the same call on the source files of the variable copy
InitVars ==
    /\ src \in VarFiles
    /\ clip = NoClip

\* clip_all_vars_netcdf4(..., origin_lat, origin_lon, clip_width, clip_height)
ClipOriginExtent ==
    \E origin_lat \in Coords, origin_lon \in Coords,
       clip_width \in 1..MaxExtent, clip_height \in 1..MaxExtent :
        /\ clip.status = "idle"
        /\ clip' = ClipCall(src,
                     [NoClip EXCEPT !.mode = "origin",
                                    !.origin_lat = origin_lat, !.origin_lon = origin_lon,
                                    !.clip_width = clip_width, !.clip_height = clip_height],
                     OriginExtentWindow(src.lat, src.lon, origin_lat, origin_lon,
                                        clip_width, clip_height),
                     TRUE, TRUE)
        /\ UNCHANGED <<src, ledger, ledgerVars, driverVars, qlVars, xmlVars, cal, pipe>>

\* clip_all_vars_netcdf4(..., lat_range, lon_range), at least one of them given
ClipRange ==
    \E lat_range \in Ranges, lon_range \in Ranges :
        /\ clip.status = "idle"
        /\ lat_range # None \/ lon_range # None
        /\ clip' = ClipCall(src,
                     [NoClip EXCEPT !.mode = "range",
                                    !.lat_range = lat_range, !.lon_range = lon_range],
                     RangeWindow(src.lat, src.lon, lat_range, lon_range),
                     lat_range # None, lon_range # None)
        /\ UNCHANGED <<src, ledger, ledgerVars, driverVars, qlVars, xmlVars, cal, pipe>>

\* clip_all_vars_netcdf4 with no clipping parameter
ClipFull ==
    /\ clip.status = "idle"
    /\ clip' = ClipCall(src, [NoClip EXCEPT !.mode = "full"],
                        FullWindow(src.lat, src.lon), FALSE, FALSE)
    /\ UNCHANGED <<src, ledger, ledgerVars, driverVars, qlVars, xmlVars, cal, pipe>>

NextClip == ClipOriginExtent \/ ClipRange \/ ClipFull

\* ------------------------------------------- clip_all_vars_netcdf4: claims

\* the call ran to the end in origin + extent mode
OriginDone == clip.status = "ok" /\ clip.mode = "origin"

\* index nearest to the requested origin on each axis (ties: the first)
NearestLat == argmin_abs(src.lat, clip.origin_lat)
NearestLon == argmin_abs(src.lon, clip.origin_lon)

\* the windows of the last call as <<start, end>> pairs
LatWindow == Window(clip.lat_indices, Len(src.lat))
LonWindow == Window(clip.lon_indices, Len(src.lon))

\* C1: in origin + extent mode the window has exactly min(clip_height, len(lat))
\* indices on lat and min(clip_width, len(lon)) on lon; a request that fits
\* into the grid from its origin gets exactly the requested dimensions.
C1_WindowSize ==
    OriginDone =>
        /\ LatWindow[2] - LatWindow[1] = Min(clip.clip_height, Len(src.lat))
        /\ LonWindow[2] - LonWindow[1] = Min(clip.clip_width, Len(src.lon))
        /\ (/\ NearestLat + clip.clip_height <= Len(src.lat)
            /\ NearestLon + 1 + clip.clip_width <= Len(src.lon))
           => /\ clip.output_height = clip.clip_height
              /\ clip.output_width = clip.clip_width

\* witness of C1: the origin sits too close to the edge on both axes, the
\* extent fits the axis, and the start was pulled back
C1_Witness ==
    /\ OriginDone
    /\ NearestLat + clip.clip_height > Len(src.lat)
    /\ NearestLon + clip.clip_width > Len(src.lon)
    /\ clip.clip_height <= Len(src.lat)
    /\ clip.clip_width <= Len(src.lon)
    /\ LatWindow[1] < NearestLat
    /\ LonWindow[1] < NearestLon

\* the request reaches beyond the grid from the nearest start index
ExceedsLat == NearestLat + clip.clip_height > Len(src.lat)
ExceedsLon == NearestLon + clip.clip_width > Len(src.lon)

\* an origin + extent call on a readable file with non-empty axes
OriginCalled ==
    /\ clip.mode = "origin"
    /\ src.fault = "none"
    /\ Len(src.lat) > 0
    /\ Len(src.lon) > 0

\* C2 as stated: whenever the extent exceeds the grid available from the
\* origin, the window is clamped to the grid boundary, the size-mismatch
\* warning is printed and no exception is raised.
C2_WarnsWheneverExceeds ==
    (OriginCalled /\ (ExceedsLat \/ ExceedsLon)) =>
        /\ clip.status = "ok"
        /\ clip.exc = "none"
        /\ ExceedsLat => LatWindow[2] = Len(src.lat)
        /\ ExceedsLon => LonWindow[2] = Len(src.lon)
        /\ clip.warned

\* C2 amended: whenever the extent exceeds the grid available from the origin,
\* the window is clamped to the grid boundary and no exception is raised; the
\* size-mismatch warning is printed exactly when the extent exceeds the whole
\* axis (clip_height > len(lat) or clip_width > len(lon)).
C2_ClampedWarnsIffLongerThanAxis ==
    (OriginCalled /\ (ExceedsLat \/ ExceedsLon)) =>
        /\ clip.status = "ok"
        /\ clip.exc = "none"
        /\ ~clip.propagated
        /\ ExceedsLat => LatWindow[2] = Len(src.lat)
        /\ ExceedsLon => LonWindow[2] = Len(src.lon)
        /\ clip.warned <=> (\/ clip.clip_height > Len(src.lat)
                            \/ clip.clip_width > Len(src.lon))

\* witness of C2: only the width is longer than its axis, and the warning is out
C2_Witness ==
    /\ OriginCalled
    /\ clip.status = "ok"
    /\ clip.clip_width > Len(src.lon)
    /\ clip.clip_height <= Len(src.lat)
    /\ ~ExceedsLat
    /\ LonWindow = <<0, Len(src.lon)>>
    /\ clip.warned

\* C3: in both modes the window [start, end) of each axis satisfies
\* 0 <= start <= end <= axis length.
C3_WindowInBounds ==
    (clip.status = "ok" /\ clip.mode \in {"origin", "range"}) =>
        /\ 0 <= LatWindow[1]
        /\ LatWindow[1] <= LatWindow[2]
        /\ LatWindow[2] <= Len(src.lat)
        /\ 0 <= LonWindow[1]
        /\ LonWindow[1] <= LonWindow[2]
        /\ LonWindow[2] <= Len(src.lon)

\* witness of C3: a range request with both ranges given in reverse order
\* (lat decreases along the axis, lon increases)
C3_Witness ==
    /\ clip.status = "ok"
    /\ clip.mode = "range"
    /\ clip.lat_range # None
    /\ clip.lon_range # None
    /\ clip.lat_range[1] < clip.lat_range[2]
    /\ clip.lon_range[1] > clip.lon_range[2]
    /\ LatWindow[1] < LatWindow[2]
    /\ LonWindow[1] < LonWindow[2]

\* C4: in origin + extent mode, when the extent fits from the start, the lat
\* window starts at the index nearest to origin_lat and the lon window at the
\* index nearest to origin_lon plus one, kept at or below the last index.
C4_StartIndices ==
    OriginDone =>
        /\ (NearestLat + clip.clip_height <= Len(src.lat))
           => LatWindow = <<NearestLat, NearestLat + clip.clip_height>>
        /\ (Min(NearestLon + 1, Len(src.lon) - 1) + clip.clip_width <= Len(src.lon))
           => LonWindow = <<Min(NearestLon + 1, Len(src.lon) - 1),
                            Min(NearestLon + 1, Len(src.lon) - 1) + clip.clip_width>>

\* witness of C4: the origin resolves to index 0 on both axes and the extent
\* fits: lat window [0, h), lon window [1, w + 1)
C4_Witness ==
    /\ OriginDone
    /\ NearestLat = 0
    /\ NearestLon = 0
    /\ clip.clip_width >= 2
    /\ clip.clip_height >= 2
    /\ LatWindow = <<0, clip.clip_height>>
    /\ LonWindow = <<1, clip.clip_width + 1>>

\* values is exactly axis restricted to the window win
IsRestriction(values, axis, win) ==
    /\ Len(values) = win[2] - win[1]
    /\ \A i \in 1..Len(values) :
          /\ win[1] + i <= Len(axis)
          /\ values[i] = axis[win[1] + i]

\* C5: after a successful call in any mode the output lat and lon arrays are
\* the input arrays restricted to the window, and the output dimensions have
\* the window lengths.
C5_CoordinateRoundTrip ==
    clip.status = "ok" =>
        /\ IsRestriction(clip.out_lat, src.lat, LatWindow)
        /\ IsRestriction(clip.out_lon, src.lon, LonWindow)
        /\ clip.dim_lat = LatWindow[2] - LatWindow[1]
        /\ clip.dim_lon = LonWindow[2] - LonWindow[1]

\* witness of C5: a range request whose window is a proper part of both axes
C5_Witness ==
    /\ clip.status = "ok"
    /\ clip.mode = "range"
    /\ clip.lat_range # None
    /\ clip.lon_range # None
    /\ LatWindow[1] > 0
    /\ LonWindow[2] < Len(src.lon)
    /\ Len(clip.out_lat) >= 2
    /\ Len(clip.out_lon) >= 1

\* C13: clip_all_vars_netcdf4 never propagates an exception to its caller:
\* whatever fails inside it (unreadable input, missing lat/lon variable, missing
\* title/history attribute, data_vars not iterable, write error), the call
\* prints the error and returns.
C13_NoExceptionPropagates ==
    clip.status # "idle" =>
        /\ ~clip.propagated
        /\ (src.fault # "none" => clip.status = "error" /\ clip.exc # "none")

\* witness of C13: a call with data_vars left at None has ended in the handler
C13_Witness ==
    /\ src.fault = "data_vars_none"
    /\ clip.mode = "origin"
    /\ clip.status = "error"
    /\ clip.exc = "TypeError"
    /\ ~clip.propagated

\* C21: in range mode, for lat_range given in either order, the latitude
\* window holds both the index nearest to lat_range[0] and the index nearest to
\* lat_range[1], and is never empty.
C21_LatRangeWindow ==
    (clip.status = "ok" /\ clip.mode = "range" /\ clip.lat_range # None) =>
        LET first == argmin_abs(src.lat, clip.lat_range[1])
            second == argmin_abs(src.lat, clip.lat_range[2])
        IN  /\ clip.lat_indices[1] <= Min(first, second)
            /\ Max(first, second) < clip.lat_indices[2]
            /\ clip.output_height > 0

\* the shape the output variable must have: the window length on lat and on
\* lon, the full length on time
WindowShape ==
    [i \in 1..Len(src.var_dims) |->
        CASE src.var_dims[i] = "time" -> src.time
          [] src.var_dims[i] = "lat" -> clip.output_height
          [] src.var_dims[i] = "lon" -> clip.output_width]

\* C22: for every requested variable of the source and every combination of
\* the dimensions time, lat, lon it has, the data clip_all_vars_netcdf4 writes
\* has the shape of the output variable's declared dimensions: the window
\* length on lat and on lon, the full length on time.
C22_VariableShape ==
    (clip.status # "idle" /\ src.fault = "none") =>
        /\ clip.var_written
        /\ clip.var_declared = WindowShape
        /\ clip.var_data = clip.var_declared

\* ------------------------------------------------- the processed-file ledger

\* characters of a name: a letter and a blank; a name holds no line break
Alphabet == {"a", " "}
NL == "\n"
\* what str.strip() removes
Whitespace == {" ", NL, "\t"}

\* the non-empty strings of at most n characters
Strings(n) == UNION {[1..k -> Alphabet] : k \in 1..n}
Names == Strings(MaxNameLen)

\* a file on disk: absent, or a text
NoFile == [exists |-> FALSE, text |-> <<>>]

\* str.strip(): the string without its leading and trailing whitespace
strip(s) ==
    LET keep == {i \in 1..Len(s) : s[i] \notin Whitespace}
    IN  IF keep = {} THEN <<>>
        ELSE LET lo == CHOOSE i \in keep : \A j \in keep : i <= j
                 hi == CHOOSE i \in keep : \A j \in keep : i >= j
             IN  SubSeq(s, lo, hi)

\* "for line in f": the lines of a text, each up to and including its line break
RECURSIVE FileLines(_)
FileLines(text) ==
    IF text = <<>> THEN <<>>
    ELSE LET breaks == {i \in 1..Len(text) : text[i] = NL}
         IN  IF breaks = {} THEN <<text>>
             ELSE LET b == CHOOSE i \in breaks : \A j \in breaks : i <= j
                  IN  <<SubSeq(text, 1, b)>> \o FileLines(SubSeq(text, b + 1, Len(text)))

\* load_processed_list: the set of the stripped non-blank lines; a missing or
\* unreadable file gives the empty set
load_processed_list(file, io_ok) ==
    IF ~file.exists THEN {}
    ELSE IF ~io_ok THEN {}
    ELSE LET lines == FileLines(file.text)
         IN  {strip(lines[i]) : i \in {j \in 1..Len(lines) : strip(lines[j]) # <<>>}}

\* write_to_processed_list: append the name and a line break; an IOError is
\* logged and nothing is written
write_to_processed_list(file, filename, io_ok) ==
    IF io_ok THEN [exists |-> TRUE, text |-> file.text \o filename \o <<NL>>]
    ELSE file

NotLoaded == [done |-> FALSE, io_ok |-> FALSE, names |-> {}, written |-> {}]

\* number of lines a ledger text holds
LineCount(file) == Len(FileLines(file.text))

InitLedger ==
    /\ ledger = NoFile
    /\ written = {}
    /\ loaded = NotLoaded

\* a call of write_to_processed_list(ledger, filename)
WriteLedger ==
    \E filename \in Names, io_ok \in BOOLEAN :
        /\ LineCount(ledger) < MaxLines
        /\ ledger' = write_to_processed_list(ledger, filename, io_ok)
        /\ written' = IF io_ok THEN written \cup {filename} ELSE written
        /\ UNCHANGED <<loaded, clipVars, driverVars, qlVars, xmlVars, cal, pipe>>

\* a call of load_processed_list(ledger)
LoadLedger ==
    \E io_ok \in BOOLEAN :
        /\ loaded' = [done |-> TRUE, io_ok |-> io_ok,
                      names |-> load_processed_list(ledger, io_ok),
                      written |-> written]
        /\ UNCHANGED <<ledger, written, clipVars, driverVars, qlVars, xmlVars, cal, pipe>>

NextLedger == WriteLedger \/ LoadLedger

\* ------------------------------------------------------- the ledger: claims

\* C6: for every sequence of writes and every name without a line break, the
\* name is a member of load_processed_list(ledger) if and only if it was
\* written before; a name never written is never reported.
C6_MemberIffWritten ==
    (loaded.done /\ loaded.io_ok) =>
        /\ \A X \in Names : X \in loaded.names <=> X \in loaded.written
        /\ loaded.names \subseteq loaded.written

\* ----------------------------------------------------------------- the driver

\* the ten calls of the main block, in order: <<product, region>>
MainBlock ==
    << <<"NDVI", "AFRI">>, <<"NDVI", "SOAM">>, <<"FAPAR", "SOAM">>, <<"FAPAR", "AFRI">>,
       <<"FCOVER", "AFRI">>, <<"FCOVER", "SOAM">>, <<"LAI", "AFRI">>, <<"LAI", "SOAM">>,
       <<"DMP", "AFRI">>, <<"DMP", "SOAM">> >>

Units == 1..Len(MainBlock)
Products == {MainBlock[k][1] : k \in Units}
UnitProduct(k) == MainBlock[k][1]
UnitRoi(k) == MainBlock[k][2]

\* the keys of base_dirs
base_dirs == {"NDVI", "DMP", "FAPAR", "FCOVER", "LAI"}

\* filename_base.format(year, month, day, var): the product and the target date,
\* the region is no part of it
Filename(product_var, date) == <<product_var, ToString(date)>>

\* name of the archive a clipping function reports
ZipName(product_var, roi, date) == <<product_var, roi, ToString(date)>>

\* the if/elif chain: "reference" binds the function, "called" calls it on the
\* spot without its argument, "none" leaves clipper_function None
Dispatch(product_var, roi) ==
    CASE product_var = "DMP" /\ roi = "AFRI" -> "reference"
      [] product_var = "DMP" /\ roi = "SOAM" -> "reference"
      [] product_var = "NDVI" /\ roi = "AFRI" -> "reference"
      [] product_var = "NDVI" /\ roi = "SOAM" -> "called"
      [] product_var = "FAPAR" /\ roi = "AFRI" -> "called"
      [] product_var = "FAPAR" /\ roi = "SOAM" -> "called"
      [] product_var = "FCOVER" /\ roi = "AFRI" -> "called"
      [] product_var = "FCOVER" /\ roi = "SOAM" -> "called"
      [] product_var = "LAI" /\ roi = "AFRI" -> "called"
      [] product_var = "LAI" /\ roi = "SOAM" -> "called"
      [] OTHER -> "none"

\* what a clipping function does when called with the source path: it returns a
\* zip path that exists or does not, raises, or returns nothing
ClipperResults == {"zip_exists", "zip_missing", "raised", "returned_none"}

\* run_*_clipping(input_file): the source path is its one positional
\* argument, so a call without it raises TypeError before anything runs
run_clipping(has_argument, result) ==
    IF has_argument THEN result ELSE "TypeError"

\* the branch that updates the two ledgers: the call returned and
\* os.path.exists(zip_file_location) holds
LedgersUpdated_WithoutZipCheck(result) == result \in {"zip_exists", "zip_missing"}
LedgersUpdated(result) == result = "zip_exists"

\* the early returns of run_clipper_process, "go on" if none is taken
EarlyReturn(product_var, base_dir_key, date, files, processed) ==
    CASE base_dir_key \notin base_dirs -> "unknown_product"
      [] product_var \notin files -> "no_source"
      [] Filename(product_var, date) \in processed -> "already_processed"
      [] OTHER -> "go_on"

\* run_clipper_process as a whole: the value is the outcome of the unit and the
\* two ledgers after it; io_ok tells whether the ledger could be read
run_clipper_process(product_var, roi, date, files, in_file, out_file, result, io_ok) ==
    LET early == EarlyReturn(product_var, product_var, date, files,
                             load_processed_list(in_file, io_ok))
        same == [outcome |-> early, ledger |-> in_file, out_ledger |-> out_file]
    IN  IF early # "go_on" THEN same
        ELSE IF Dispatch(product_var, roi) = "called"
             \* the call sits outside the try block; whatever it returns is
             \* not a function: None ends the unit, anything else has no __name__
             THEN [same EXCEPT !.outcome =
                      IF run_clipping(FALSE, result) = "returned_none"
                      THEN "no_function" ELSE "dispatch_raised"]
        ELSE IF Dispatch(product_var, roi) = "none"
             THEN [same EXCEPT !.outcome = "no_function"]
        ELSE IF LedgersUpdated(run_clipping(TRUE, result))
             THEN [outcome |-> result,
                   ledger |-> write_to_processed_list(in_file,
                                  Filename(product_var, date), TRUE),
                   out_ledger |-> write_to_processed_list(out_file,
                                  ZipName(product_var, roi, date), TRUE)]
        ELSE [same EXCEPT !.outcome = run_clipping(TRUE, result)]

\* outcomes in which an exception leaves run_clipper_process
Uncaught == {"dispatch_raised"}
\* outcomes in which the unit failed: the function raised or its zip is missing
Failed == {"zip_missing", "raised", "returned_none"}
\* outcomes in which the clipping function of the unit was invoked
Invoked == {"zip_exists", "zip_missing", "raised", "returned_none", "dispatch_raised"}

NoOutcome == [k \in Units |-> "none"]

\* the entries of a ledger beyond the first of each name
Repeats(file) == LineCount(file) - Cardinality(load_processed_list(file, TRUE))

InitDriver ==
    /\ ledger = NoFile
    /\ out_ledger = NoFile
    /\ today = 1
    /\ mount = {}
    /\ pc = 0
    /\ crashed = FALSE
    /\ outcome = NoOutcome
    /\ prev = [failed |-> {}, today |-> 0]

\* the invocation is over: the main block ran through, or the process died
InvocationOver == pc = Len(MainBlock) + 1 \/ crashed

\* cron starts the script: the date may have moved on, files may have arrived
StartInvocation ==
    /\ pc = 0 \/ InvocationOver
    /\ \E d \in {today, today + 1}, files \in SUBSET Products :
          /\ d <= MaxDekad
          /\ today' = d
          /\ mount' = files
    /\ pc' = 1
    /\ crashed' = FALSE
    /\ outcome' = NoOutcome
    /\ prev' = [failed |-> {k \in Units : outcome[k] \in Failed}, today |-> today]
    /\ UNCHANGED <<ledger, out_ledger, clipVars, ledgerVars, qlVars, xmlVars, cal, pipe>>

\* the next run_*_clipper call of the main block; io_ok tells whether the
\* ledger can be read
RunUnitWith(io_ok) ==
    /\ pc \in Units
    /\ ~crashed
    /\ \E result \in ClipperResults :
          LET r == run_clipper_process(UnitProduct(pc), UnitRoi(pc), today, mount,
                                       ledger, out_ledger, result, io_ok)
          IN  /\ outcome' = [outcome EXCEPT ![pc] = r.outcome]
              /\ ledger' = r.ledger
              /\ out_ledger' = r.out_ledger
              /\ crashed' = (r.outcome \in Uncaught)
              /\ pc' = IF r.outcome \in Uncaught THEN pc ELSE pc + 1
    /\ UNCHANGED <<today, mount, prev, clipVars, ledgerVars, qlVars, xmlVars, cal, pipe>>

\* the call with a ledger that is read
RunUnit == RunUnitWith(TRUE)

\* the call with a ledger that is there and cannot be read (the IOError
\* branch of load_processed_list), followed while the ledger is short
RunUnitUnread ==
    /\ ledger.exists
    /\ LineCount(ledger) < MaxLines
    /\ RunUnitWith(FALSE)

NextDriver == StartInvocation \/ RunUnit

\* the driver with reads of the ledger that may fail
NextRerun == StartInvocation \/ RunUnit \/ RunUnitUnread

\* ----------------------------------------------------------- the driver: claims

\* C7: the source filename goes to the processed-input ledger, and the zip name
\* to the output ledger, only in a run where the clipping function returned and
\* the zip it reported exists; every other outcome leaves both ledgers as they were.
C7_LedgersOnlyOnZip ==
    [][(ledger' # ledger \/ out_ledger' # out_ledger) =>
          /\ pc \in Units
          /\ outcome'[pc] = "zip_exists"
          /\ UnitProduct(pc) \in mount
          /\ ledger'.text = ledger.text \o Filename(UnitProduct(pc), today) \o <<NL>>
          /\ out_ledger'.text =
                out_ledger.text \o ZipName(UnitProduct(pc), UnitRoi(pc), today) \o <<NL>>]_vars

\* witness of C7: a unit whose zip exists is in both ledgers, next to a unit of
\* the same invocation that failed and is in none
C7_Witness ==
    /\ outcome[9] = "zip_missing"
    /\ outcome[10] = "zip_exists"
    /\ Filename("DMP", today) \in load_processed_list(ledger, TRUE)
    /\ ZipName("DMP", "SOAM", today) \in load_processed_list(out_ledger, TRUE)
    /\ ZipName("DMP", "AFRI", today) \notin load_processed_list(out_ledger, TRUE)

\* C8: a failure in one unit never keeps the others from being attempted: each
\* of the ten calls of the main block is reached and returns.
C8_EveryUnitReached ==
    InvocationOver =>
        /\ ~crashed
        /\ \A k \in Units : outcome[k] # "none"

\* C9: a unit that failed in one invocation has its clipping function invoked
\* again in the next invocation in which the same source file still exists
\* (stated for the invocations that get as far as the unit).
C9_FailedUnitRetried ==
    \A k \in prev.failed :
        (prev.today = today /\ pc > k /\ UnitProduct(k) \in mount)
            => outcome[k] \in Invoked

\* the unit itself is recorded as successful: its archive is in the ledger of
\* produced archives
RecordedSuccess(k) ==
    ZipName(UnitProduct(k), UnitRoi(k), today) \in load_processed_list(out_ledger, TRUE)

\* C27: a unit is skipped as already processed only if that same unit was
\* recorded as successful earlier; a success of the other region of the same
\* product and date never causes the skip.
C27_SkippedOnlyIfOwnSuccess ==
    \A k \in Units : outcome[k] = "already_processed" => RecordedSuccess(k)

\* the ledger text a begins the ledger text b
IsPrefix(a, b) == Len(a) <= Len(b) /\ SubSeq(b, 1, Len(a)) = a

\* C30: with one driver process at a time, across any sequence of invocations
\* the processed-input ledger only grows (what it held stays as it was) and
\* every source filename is in it at most once.
C30_LedgerGrowsNoRepeats ==
    /\ [][IsPrefix(ledger.text, ledger'.text)]_vars
    /\ [](Repeats(ledger) = 0)

\* outcomes of the early returns: the unit was not to be processed
Skipped == {"unknown_product", "no_source", "already_processed"}

\* C28: for each of the ten units of the dispatch table, when the source file
\* exists and is not in the ledger, the unit's clipping function is invoked
\* with the source path inside the guarded block: the outcome of the unit is
\* whatever that one call did.
C28_ClipperInvokedInTry ==
    \A k \in Units :
        (outcome[k] # "none" /\ outcome[k] \notin Skipped)
            => outcome[k] \in ClipperResults

\* ------------------------------------------------------------- the quicklook

\* raw values a pixel of the band may hold, and values of the flag band
PixelValues == {0, 125, 254, 300}
FlagValues == {0, 128}

\* the input file of a quicklook: present or not, the valid_range attribute of
\* the band (None when absent), the band and the flag band pixel by pixel
QlFiles ==
    {[exists |-> TRUE, valid_range |-> vr, pixels |-> px, flags |-> fl] :
        vr \in {None, <<0, 250>>},
        px \in [1..MaxPixels -> PixelValues],
        fl \in [1..MaxPixels -> FlagValues]}
    \cup
    {[exists |-> FALSE, valid_range |-> None, pixels |-> <<>>, flags |-> <<>>]}

\* Python values of ql_Subsample: numbers are kept in tenths so that a
\* non-integer factor such as 2.5 can be told from an integer one
PyInt(n) == [type |-> "int", tenths |-> 10 * n]
PyFloat(t) == [type |-> "float", tenths |-> t]
PyList(items) == [type |-> "list", items |-> items]
PyTuple(items) == [type |-> "tuple", items |-> items]

\* the optional keys thumbnail_view puts in qlDict
ThumbnailKeys ==
    {"ql_QFLAG_BandName", "ql_QFLAG_Value", "ql_NDVI_Value_For_QFLAG",
     "src_Min", "src_Max", "gdal_open_option"}

\* the qlDict thumbnail_view builds; "has" names the optional keys it holds
ThumbnailDict ==
    [ql_Subsample |-> PyList(<<PyInt(5), PyInt(5)>>),
     ql_Min |-> 0, ql_Max |-> 255, ql_NDV |-> 255,
     ql_BandName |-> "NDVI",
     ql_QFLAG_BandName |-> "QFLAG", ql_QFLAG_Value |-> 128,
     ql_NDVI_Value_For_QFLAG |-> 254,
     src_Min |-> 0, src_Max |-> 255, src_type |-> "int",
     has |-> ThumbnailKeys]

\* values of ql_Subsample a caller may pass: two positive integers (equal or
\* not), a wrong length, a zero, a negative, a non-integer, not a list
GoodSubsamples ==
    {PyList(<<PyInt(5), PyInt(5)>>), PyList(<<PyInt(5), PyInt(10)>>)}
BadSubsamples ==
    {PyList(<<PyInt(5)>>), PyList(<<PyInt(5), PyInt(5), PyInt(5)>>),
     PyList(<<PyInt(0), PyInt(5)>>), PyList(<<PyInt(0 - 5), PyInt(5)>>),
     PyList(<<PyFloat(25), PyInt(5)>>), PyList(<<>>),
     PyTuple(<<PyInt(5), PyInt(5)>>)}

\* the qlDict values a caller may pass: the configuration of thumbnail_view
\* with other output ranges, source ranges and optional keys, and with one
\* parameter at a time out of its domain
QlDicts ==
    {[ThumbnailDict EXCEPT !.ql_Max = qmax, !.src_Max = smax, !.has = keys,
                           !.ql_Subsample = sub] :
        qmax \in {210, 255}, smax \in {250, 255},
        keys \in {{}, {"src_Min", "src_Max"}, {"src_Min"}, ThumbnailKeys},
        sub \in GoodSubsamples}
    \cup {[ThumbnailDict EXCEPT !.ql_Min = 0 - 1],
          [ThumbnailDict EXCEPT !.ql_Max = 256],
          [ThumbnailDict EXCEPT !.ql_NDV = 256]}
    \cup {[ThumbnailDict EXCEPT !.ql_Subsample = sub] : sub \in BadSubsamples}
    \cup {[ThumbnailDict EXCEPT !.src_type = "float", !.has = keys] :
            keys \in {{"src_Min", "src_Max"}, {"src_Max"}}}

\* a value that may be None: None is <<>>, the value v is <<v>>
Some(v) == <<v>>

\* "x in range(0, 256)"
InByteRange_Any(x) == TRUE
InByteRange(x) == x \in 0..255

\* conversion of a value to gdal.GDT_Byte: clamped to 0..255
ToByte(v) == IF v < 0 THEN 0 ELSE IF v > 255 THEN 255 ELSE v

\* scaleParams of gdal.Translate: value mapped from [sMin, sMax] onto
\* [dMin, dMax], rounded to the nearest integer (a zero-width source range is
\* widened by a tenth, as gdal_translate does)
ScalePixel(v, sMin, sMax, dMin, dMax) ==
    LET num == IF sMax = sMin THEN (v - sMin) * (dMax - dMin) * 10
               ELSE (v - sMin) * (dMax - dMin)
        den == IF sMax = sMin THEN 1 ELSE sMax - sMin
        n == IF den < 0 THEN 0 - num ELSE num
        d == IF den < 0 THEN 0 - den ELSE den
    IN  ((2 * n + d) \div (2 * d)) + dMin

\* the source range createQuicklook works with: valid_range of the band, each
\* end overruled by src_Min / src_Max of qlDict when the key is there and its
\* value is of type int
SourceRange_BandOnly(qlDict, file) ==
    IF file.valid_range # None
    THEN <<Some(file.valid_range[1]), Some(file.valid_range[2])>>
    ELSE <<None, None>>
SourceRange(qlDict, file) ==
    LET band_Min == IF file.valid_range # None THEN Some(file.valid_range[1]) ELSE None
        band_Max == IF file.valid_range # None THEN Some(file.valid_range[2]) ELSE None
    IN  <<IF "src_Min" \in qlDict.has /\ qlDict.src_type = "int"
          THEN Some(qlDict.src_Min) ELSE band_Min,
          IF "src_Max" \in qlDict.has /\ qlDict.src_type = "int"
          THEN Some(qlDict.src_Max) ELSE band_Max>>

\* the source range of createQuicklook_new: the same, the override being taken
\* when its value is an int or a float
SourceRangeNew(qlDict, file) ==
    LET band_Min == IF file.valid_range # None THEN Some(file.valid_range[1]) ELSE None
        band_Max == IF file.valid_range # None THEN Some(file.valid_range[2]) ELSE None
    IN  <<IF "src_Min" \in qlDict.has /\ qlDict.src_type \in {"int", "float"}
          THEN Some(qlDict.src_Min) ELSE band_Min,
          IF "src_Max" \in qlDict.has /\ qlDict.src_type \in {"int", "float"}
          THEN Some(qlDict.src_Max) ELSE band_Max>>

\* no raster written
NoTiff == [written |-> FALSE, pixels |-> <<>>, widthPct |-> PyInt(0), heightPct |-> PyInt(0)]

\* results of a generator that stopped before a raster was written: before
\* (Rejected) or after (Stopped) the input file was opened
Rejected(ret) ==
    [ret |-> ret, tiff |-> NoTiff, opened |-> FALSE, src_range |-> <<None, None>>]
Stopped(ret, src_range) ==
    [ret |-> ret, tiff |-> NoTiff, opened |-> TRUE, src_range |-> src_range]

\* createQuicklook's only look at ql_Subsample before it is used
SubsampleAccepted(sub) == sub.type = "list"

\* createQuicklook: the value is what it returns and the GeoTIFF it wrote.
\* The flag keys of qlDict are not read anywhere in it; widthPct and heightPct
\* are both the first element of ql_Subsample. A percentage of zero leaves the
\* size alone, a negative one makes gdal.Translate fail, and the update of the
\* raster that is not there ends in the bare except.
createQuicklook(qlDict, file) ==
    IF ~InByteRange(qlDict.ql_NDV) \/ ~InByteRange(qlDict.ql_Min) \/ ~InByteRange(qlDict.ql_Max)
    THEN Rejected("error_pair")
    ELSE IF ~SubsampleAccepted(qlDict.ql_Subsample)
    THEN Rejected("error_pair")
    ELSE IF ~file.exists
    THEN Rejected("error_pair")
    ELSE
      LET src_Min == SourceRange(qlDict, file)[1]
          src_Max == SourceRange(qlDict, file)[2]
          rescale == src_Min # Some(qlDict.ql_Min) \/ src_Max # Some(qlDict.ql_Max)
          items == qlDict.ql_Subsample.items
      IN  IF rescale /\ src_Min = None /\ src_Max = None
          THEN Stopped("error_pair", <<src_Min, src_Max>>)
          ELSE IF rescale /\ (src_Min = None \/ src_Max = None)
          THEN Stopped("None", <<src_Min, src_Max>>)
          ELSE IF Len(items) = 0
          THEN Stopped("None", <<src_Min, src_Max>>)
          ELSE IF items[1].tenths < 0
          THEN Stopped("None", <<src_Min, src_Max>>)
          ELSE [ret |-> "True",
                opened |-> TRUE,
                src_range |-> <<src_Min, src_Max>>,
                tiff |-> [written |-> TRUE,
                          pixels |-> [i \in 1..Len(file.pixels) |->
                              IF rescale
                              THEN ToByte(ScalePixel(file.pixels[i], src_Min[1], src_Max[1],
                                                     qlDict.ql_Min, qlDict.ql_Max))
                              ELSE ToByte(file.pixels[i])],
                          widthPct |-> items[1],
                          heightPct |-> items[1]]]

\* whether createQuicklook_new applies the flag override: the three keys are
\* in qlDict (the flag band has the shape of the band)
apply_qflag_modification(qlDict) ==
    {"ql_QFLAG_BandName", "ql_QFLAG_Value", "ql_NDVI_Value_For_QFLAG"} \subseteq qlDict.has

\* createQuicklook_new's check of ql_Subsample: a list of two positive integers
SubsampleValid(sub) ==
    /\ sub.type = "list"
    /\ Len(sub.items) = 2
    /\ \A i \in 1..Len(sub.items) : sub.items[i].type = "int" /\ sub.items[i].tenths > 0

\* createQuicklook_new: the band is read, flagged pixels are overwritten, the
\* array is written as bytes without rescaling
createQuicklook_new(qlDict, file) ==
    IF ~InByteRange(qlDict.ql_NDV) \/ ~InByteRange(qlDict.ql_Min) \/ ~InByteRange(qlDict.ql_Max)
    THEN Rejected("False_pair")
    ELSE IF ~SubsampleValid(qlDict.ql_Subsample)
    THEN Rejected("False_pair")
    ELSE IF ~file.exists
    THEN Rejected("False_pair")
    ELSE
      LET src_Min == SourceRangeNew(qlDict, file)[1]
          src_Max == SourceRangeNew(qlDict, file)[2]
          processed == [i \in 1..Len(file.pixels) |->
                          IF apply_qflag_modification(qlDict)
                             /\ file.flags[i] = qlDict.ql_QFLAG_Value
                          THEN qlDict.ql_NDVI_Value_For_QFLAG
                          ELSE file.pixels[i]]
      IN  IF src_Min = None \/ src_Max = None
          THEN Stopped("False_pair", <<src_Min, src_Max>>)
          ELSE [ret |-> "True_pair",
                opened |-> TRUE,
                src_range |-> <<src_Min, src_Max>>,
                tiff |-> [written |-> TRUE,
                          pixels |-> [i \in 1..Len(processed) |-> ToByte(processed[i])],
                          widthPct |-> qlDict.ql_Subsample.items[1],
                          heightPct |-> qlDict.ql_Subsample.items[2]]]

\* state before any quicklook call
NoQuicklook ==
    [caller |-> "none", qlDict |-> ThumbnailDict, ret |-> "none", tiff |-> NoTiff,
     opened |-> FALSE, src_range |-> <<None, None>>, exited |-> FALSE]

\* the record of a call: who called, with which qlDict, and what came of it
QlCall(caller, qlDict, r) ==
    [caller |-> caller, qlDict |-> qlDict, ret |-> r.ret, tiff |-> r.tiff,
     opened |-> r.opened, src_range |-> r.src_range, exited |-> FALSE]

InitQl ==
    /\ nc \in QlFiles
    /\ ql = NoQuicklook

\* thumbnail_view(filename, thumbFilename): builds qlDict and calls
\* createQuicklook; the bare except of createQuicklook lets nothing through, so
\* sys.exit(1) is not reached
ThumbnailView ==
    /\ ql.caller = "none"
    /\ ql' = QlCall("thumbnail_view", ThumbnailDict, createQuicklook(ThumbnailDict, nc))
    /\ UNCHANGED <<nc, clipVars, ledger, ledgerVars, driverVars, xmlVars, cal, pipe>>

\* createQuicklook_new(qlDict) called with the same configuration (the call
\* thumbnail_view keeps commented out)
QuicklookNew ==
    /\ ql.caller = "none"
    /\ ql' = QlCall("thumbnail_view_new", ThumbnailDict,
                    createQuicklook_new(ThumbnailDict, nc))
    /\ UNCHANGED <<nc, clipVars, ledger, ledgerVars, driverVars, xmlVars, cal, pipe>>

\* createQuicklook(qlDict) called with any qlDict
CreateQuicklook ==
    \E qlDict \in QlDicts :
        /\ ql.caller = "none"
        /\ ql' = QlCall("createQuicklook", qlDict, createQuicklook(qlDict, nc))
        /\ UNCHANGED <<nc, clipVars, ledger, ledgerVars, driverVars, xmlVars, cal, pipe>>

\* createQuicklook_new(qlDict) called with any qlDict
CreateQuicklookNew ==
    \E qlDict \in QlDicts :
        /\ ql.caller = "none"
        /\ ql' = QlCall("createQuicklook_new", qlDict, createQuicklook_new(qlDict, nc))
        /\ UNCHANGED <<nc, clipVars, ledger, ledgerVars, driverVars, xmlVars, cal, pipe>>

NextQl == ThumbnailView \/ QuicklookNew \/ CreateQuicklook \/ CreateQuicklookNew

\* ----------------------------------------------------- the quicklook: claims

\* C10: in a quicklook generated with the flag band, trigger value and override
\* value thumbnail_view configures, every pixel whose flag equals the trigger
\* value has the override value, whatever its own value.
C10_FlaggedPixelsOverridden ==
    (ql.tiff.written /\ ql.qlDict = ThumbnailDict) =>
        \A i \in 1..Len(ql.tiff.pixels) :
            nc.flags[i] = ThumbnailDict.ql_QFLAG_Value
                => ql.tiff.pixels[i] = ThumbnailDict.ql_NDVI_Value_For_QFLAG

\* the source range as the caller gave it: the key of qlDict if it is there,
\* the valid_range attribute of the band otherwise
GivenSrcMin(qlDict, file) ==
    IF "src_Min" \in qlDict.has THEN Some(qlDict.src_Min)
    ELSE IF file.valid_range = None THEN None ELSE Some(file.valid_range[1])
GivenSrcMax(qlDict, file) ==
    IF "src_Max" \in qlDict.has THEN Some(qlDict.src_Max)
    ELSE IF file.valid_range = None THEN None ELSE Some(file.valid_range[2])

\* the calls of createQuicklook and those of createQuicklook_new
ByCreateQuicklook == ql.caller \in {"createQuicklook", "thumbnail_view"}
ByCreateQuicklookNew == ql.caller \in {"createQuicklook_new", "thumbnail_view_new"}

\* pixel i was overwritten by the flag override of createQuicklook_new
Overridden(i) ==
    /\ ByCreateQuicklookNew
    /\ apply_qflag_modification(ql.qlDict)
    /\ nc.flags[i] = ql.qlDict.ql_QFLAG_Value

\* C11: when the source range differs from the output range and
\* src_max > src_min, every generator maps each pixel value v to
\* (v - src_min) / (src_max - src_min) * (ql_Max - ql_Min) + ql_Min, clamped to
\* 0..255 and stored as a byte (the byte is within one of the clamped value).
C11_AffineRescale ==
    LET sMin == GivenSrcMin(ql.qlDict, nc)
        sMax == GivenSrcMax(ql.qlDict, nc)
        qMin == ql.qlDict.ql_Min
        qMax == ql.qlDict.ql_Max
    IN  (/\ ql.tiff.written
         /\ sMin # None /\ sMax # None
         /\ (sMin # Some(qMin) \/ sMax # Some(qMax))
         /\ sMax[1] > sMin[1])
        => \A i \in 1..Len(ql.tiff.pixels) :
              ~Overridden(i) =>
                LET den == sMax[1] - sMin[1]
                    exact == (nc.pixels[i] - sMin[1]) * (qMax - qMin) + qMin * den
                    clamped == Max(0, Min(255 * den, exact))
                IN  Abs(ql.tiff.pixels[i] * den - clamped) < den

C14_InvalidRejectedBeforeIO ==
    (/\ ql.caller # "none"
     /\ \/ ql.qlDict.ql_NDV \notin 0..255
        \/ ql.qlDict.ql_Min \notin 0..255
        \/ ql.qlDict.ql_Max \notin 0..255
        \/ ~nc.exists)
    => /\ ql.ret \in {"error_pair", "False_pair"}
       /\ ~ql.opened
       /\ ~ql.tiff.written

\* witness of C14: createQuicklook has turned down ql_Max = 256 on a file
\* that exists
C14_Witness ==
    /\ ql.caller = "createQuicklook"
    /\ ql.qlDict.ql_Max = 256
    /\ nc.exists /\ Len(nc.pixels) > 0
    /\ ql.ret = "error_pair"
    /\ ~ql.opened

\* ql_Subsample is a list of exactly two positive integers
TwoPositiveIntegers(sub) ==
    /\ sub.type = "list"
    /\ Len(sub.items) = 2
    /\ \A i \in 1..Len(sub.items) : sub.items[i].type = "int" /\ sub.items[i].tenths >= 10

\* C15: a ql_Subsample that is not a list of exactly two positive integers is
\* rejected by the generator with a failure result, and no raster is produced.
C15_BadSubsampleRejected ==
    (ql.caller # "none" /\ ~TwoPositiveIntegers(ql.qlDict.ql_Subsample))
    => /\ ql.ret \in {"error_pair", "False_pair"}
       /\ ~ql.tiff.written

\* C16: createQuicklook returns a pair (err, errMsg) on every path, with
\* err = 0 exactly when the quicklook was produced and a non-zero err with a
\* message on every failure, those of the outer handler included.
C16_ReturnsErrPair ==
    ByCreateQuicklook =>
        /\ ql.ret \in {"ok_pair", "error_pair"}
        /\ ql.ret = "ok_pair" <=> ql.tiff.written

\* C23: if, after the overrides, either bound of the source range is
\* undetermined (no valid_range attribute on the band and no override for that
\* bound), the generator returns a failure with a message and writes no raster.
C23_UndeterminedRangeFails ==
    (/\ ql.caller # "none"
     /\ nc.exists
     /\ GivenSrcMin(ql.qlDict, nc) = None \/ GivenSrcMax(ql.qlDict, nc) = None)
    => /\ ql.ret \in {"error_pair", "False_pair"}
       /\ ~ql.tiff.written

\* C24: whenever qlDict supplies a numeric src_Min or src_Max, integer or
\* floating, the generator uses it as that bound of the source range in place
\* of the value of the valid_range attribute.
C24_OverrideWins ==
    (ql.caller # "none" /\ ql.opened) =>
        /\ "src_Min" \in ql.qlDict.has => ql.src_range[1] = Some(ql.qlDict.src_Min)
        /\ "src_Max" \in ql.qlDict.has => ql.src_range[2] = Some(ql.qlDict.src_Max)

\* C25: the width reduction of the quicklook is the first element of
\* ql_Subsample and its height reduction the second, also when they differ.
C25_SubsamplePerAxis ==
    (ql.tiff.written /\ Len(ql.qlDict.ql_Subsample.items) >= 2) =>
        /\ ql.tiff.widthPct = ql.qlDict.ql_Subsample.items[1]
        /\ ql.tiff.heightPct = ql.qlDict.ql_Subsample.items[2]

\* ------------------------------------------------- the XML substitution

\* characters of an element text or attribute value: the token marker and two
\* identifier characters
XmlChars == {"$", "a", "b"}
IdentChars == {"a", "b"}

\* every text of at most MaxText characters
Texts == UNION {[1..n -> XmlChars] : n \in 0..MaxText}

\* a Python string value of params_dict
PyStr(chars) == [type |-> "str", chars |-> chars]

\* str(value): a string is itself, an integer becomes its decimal digit
Digits == <<"0", "1", "2", "3", "4", "5", "6", "7", "8", "9">>
Str(value) ==
    IF value.type = "int" THEN <<Digits[(value.tenths \div 10) + 1]>> ELSE value.chars

\* the values of params_dict a caller may pass, in the order of its items():
\* no key, one key, two keys in either order, an integer value
Mappings ==
    {<<>>,
     <<[key |-> <<"a">>, value |-> PyStr(<<"x">>)]>>,
     <<[key |-> <<"a">>, value |-> PyInt(7)]>>,
     <<[key |-> <<"a">>, value |-> PyStr(<<"x">>)], [key |-> <<"b">>, value |-> PyStr(<<"y">>)]>>,
     <<[key |-> <<"b">>, value |-> PyStr(<<"y">>)], [key |-> <<"a">>, value |-> PyStr(<<"x">>)]>>}

\* an element: its text (empty when it has none) and the values of its
\* attributes; a tree is the chain root, child, grandchild, ...
Element(where, s) ==
    [text |-> IF where \in {"text", "both"} THEN s ELSE <<>>,
     attrib |-> IF where \in {"attrib", "both"} THEN <<s>> ELSE <<>>]
Trees ==
    {[i \in 1..depth |-> Element(where, s)] :
        depth \in 1..3, where \in {"text", "attrib", "both"}, s \in Texts}

\* the template file: well-formed with a tree, not well-formed, or missing
NoTree == <<>>
XmlFiles ==
    {[exists |-> TRUE, wellformed |-> TRUE, tree |-> t] : t \in Trees}
    \cup {[exists |-> TRUE, wellformed |-> FALSE, tree |-> NoTree],
          [exists |-> FALSE, wellformed |-> FALSE, tree |-> NoTree]}

\* output_file_path: not given, given and writable, given and not writable
Destinations == {"none", "writable", "unwritable"}

\* re.sub(pattern, repl, text) for a pattern that matches the literal pat:
\* every non-overlapping occurrence, leftmost first, becomes repl
RECURSIVE re_sub(_, _, _)
re_sub(pat, repl, text) ==
    IF Len(text) < Len(pat) THEN text
    ELSE IF SubSeq(text, 1, Len(pat)) = pat
         THEN repl \o re_sub(pat, repl, SubSeq(text, Len(pat) + 1, Len(text)))
         ELSE <<Head(text)>> \o re_sub(pat, repl, Tail(text))

\* r'\$' + re.escape(key)
Pattern(key) == <<"$">> \o key

\* the loop over params_dict.items() on element.text: each key is substituted
\* in what the keys before it left
RECURSIVE SubstituteText(_, _)
SubstituteText(text, params_dict) ==
    IF params_dict = <<>> THEN text
    ELSE SubstituteText(re_sub(Pattern(Head(params_dict).key),
                               Str(Head(params_dict).value), text),
                        Tail(params_dict))

\* the loop over params_dict.items() on one attribute: each key is substituted
\* in attr_value, the value the attribute had before the loop, and the result
\* assigned, so that the assignment of the last key is the one that stays
SubstituteAttribute(attr_value, params_dict) ==
    IF params_dict = <<>> THEN attr_value
    ELSE LET last == params_dict[Len(params_dict)]
         IN  re_sub(Pattern(last.key), Str(last.value), attr_value)

\* replace_text(element): the text of the element if it has one, then its
\* children, then its attributes
RECURSIVE replace_text(_, _)
replace_text(tree, params_dict) ==
    IF tree = <<>> THEN <<>>
    ELSE LET element == Head(tree)
         IN  <<[text |-> IF element.text # <<>>
                         THEN SubstituteText(element.text, params_dict)
                         ELSE element.text,
                attrib |-> [k \in 1..Len(element.attrib) |->
                               SubstituteAttribute(element.attrib[k], params_dict)]]>>
             \o replace_text(Tail(tree), params_dict)

\* the exception ET.parse raises on the template, "none" if it parses
ParseException(file) ==
    IF ~file.exists THEN "OSError"
    ELSE IF ~file.wellformed THEN "XMLSyntaxError"
    ELSE "none"

\* what the except clauses after the parse handle: FileNotFoundError,
\* ET.ParseError and, last, Exception
ParseHandled == {"FileNotFoundError", "XMLSyntaxError", "OSError"}

\* what the except clause around the write handles: Exception
SaveHandled_Nothing == {}
SaveHandled == {"OSError"}

\* "not root": an element is false when it has no children
RootIsFalse(tree) == Len(tree) = 1

\* state before the call
NoSubstitution ==
    [fn |-> "none", params_dict |-> <<>>, output_file_path |-> "none",
     ret |-> "none", raised |-> FALSE, tree |-> NoTree,
     write_attempted |-> FALSE, written |-> FALSE]

\* what a call ends with once the template is parsed and substituted: the
\* tree is written to output_file_path if one is given (the function then
\* returns nothing), returned as a string otherwise
SaveOrReturn(call, tree) ==
    IF call.output_file_path = "none"
    THEN [call EXCEPT !.ret = "string", !.tree = tree]
    ELSE IF call.output_file_path = "unwritable"
    THEN [call EXCEPT !.tree = tree, !.write_attempted = TRUE,
                      !.ret = IF "OSError" \in SaveHandled THEN "" ELSE "none",
                      !.raised = "OSError" \notin SaveHandled]
    ELSE [call EXCEPT !.ret = "None", !.tree = tree,
                      !.write_attempted = TRUE, !.written = TRUE]

\* the end of a call whose parse raised
ParseFailed(call, exc) ==
    [call EXCEPT !.ret = IF exc \in ParseHandled THEN "" ELSE "none",
                 !.raised = exc \notin ParseHandled]

\* replace_xml_parameters(xml_file_path, params_dict, output_file_path)
replace_xml_parameters(file, params_dict, output_file_path) ==
    LET call == [NoSubstitution EXCEPT !.fn = "replace_xml_parameters",
                                       !.params_dict = params_dict,
                                       !.output_file_path = output_file_path]
    IN  IF ParseException(file) # "none"
        THEN ParseFailed(call, ParseException(file))
        ELSE IF RootIsFalse(file.tree)
        THEN [call EXCEPT !.ret = "None", !.tree = file.tree]
        ELSE SaveOrReturn(call, replace_text(file.tree, params_dict))

\* replace_xml_parameters_lxml(xml_file_path, params_dict, output_file_path):
\* the file is looked for before it is parsed, the root is not tested
replace_xml_parameters_lxml(file, params_dict, output_file_path) ==
    LET call == [NoSubstitution EXCEPT !.fn = "replace_xml_parameters_lxml",
                                       !.params_dict = params_dict,
                                       !.output_file_path = output_file_path]
    IN  IF ~file.exists
        THEN [call EXCEPT !.ret = ""]
        ELSE IF ParseException(file) # "none"
        THEN ParseFailed(call, ParseException(file))
        ELSE SaveOrReturn(call, replace_text(file.tree, params_dict))

InitXml ==
    /\ xml \in XmlFiles
    /\ xmlcall = NoSubstitution

ReplaceXmlParameters ==
    \E params_dict \in Mappings, output_file_path \in Destinations :
        /\ xmlcall.fn = "none"
        /\ xmlcall' = replace_xml_parameters(xml, params_dict, output_file_path)
        /\ UNCHANGED <<xml, clipVars, ledger, ledgerVars, driverVars, qlVars, cal, pipe>>

ReplaceXmlParametersLxml ==
    \E params_dict \in Mappings, output_file_path \in Destinations :
        /\ xmlcall.fn = "none"
        /\ xmlcall' = replace_xml_parameters_lxml(xml, params_dict, output_file_path)
        /\ UNCHANGED <<xml, clipVars, ledger, ledgerVars, driverVars, qlVars, cal, pipe>>

NextXml == ReplaceXmlParameters \/ ReplaceXmlParametersLxml

\* ----------------------------------------- the XML substitution: claims

\* the call came back without the failure result and without raising
SubstitutionSucceeded ==
    /\ xmlcall.fn # "none"
    /\ ~xmlcall.raised
    /\ xmlcall.ret # ""

\* the keys of params_dict whose token $key starts the text
KeysAtHead(text, params_dict) ==
    {i \in 1..Len(params_dict) :
        /\ Len(Pattern(params_dict[i].key)) <= Len(text)
        /\ SubSeq(text, 1, Len(Pattern(params_dict[i].key))) = Pattern(params_dict[i].key)}

\* the text with every occurrence of $k, k a key, replaced by str(mapping[k])
RECURSIVE Substituted(_, _)
Substituted(text, params_dict) ==
    IF text = <<>> THEN <<>>
    ELSE IF KeysAtHead(text, params_dict) = {}
    THEN <<Head(text)>> \o Substituted(Tail(text), params_dict)
    ELSE LET i == CHOOSE i \in KeysAtHead(text, params_dict) : TRUE
             n == Len(Pattern(params_dict[i].key))
         IN  Str(params_dict[i].value)
             \o Substituted(SubSeq(text, n + 1, Len(text)), params_dict)

\* C17: after a successful substitution, in the text of every element of the
\* tree, at any depth, the root included also when it has no children, every
\* occurrence of $k has been replaced by str(mapping[k]) for every key k (no key
\* of the mappings is a prefix of another, no value holds '$').
C17_TextSubstituted ==
    SubstitutionSucceeded =>
        \A i \in 1..Len(xml.tree) :
            xmlcall.tree[i].text = Substituted(xml.tree[i].text, xmlcall.params_dict)

\* the call went through the tree (replace_xml_parameters returns before it does
\* when the root has no children: that case is the subject of C17)
TreeVisited ==
    /\ SubstitutionSucceeded
    /\ (xmlcall.fn = "replace_xml_parameters" => Len(xml.tree) > 1)

\* C18: after a successful substitution, in every attribute value of every
\* element every occurrence of $k has been replaced by str(mapping[k]) for every
\* key k, also with two or more keys and with tokens of several keys in one
\* value.
C18_AttributesSubstituted ==
    TreeVisited =>
        \A i \in 1..Len(xml.tree) :
            \A k \in 1..Len(xml.tree[i].attrib) :
                xmlcall.tree[i].attrib[k]
                    = Substituted(xml.tree[i].attrib[k], xmlcall.params_dict)

\* the token that starts at the '$' at position p: the longest run of
\* identifier characters after it
TokenName(text, p) ==
    LET e == CHOOSE e \in p..Len(text) :
                /\ \A j \in (p + 1)..e : text[j] \in IdentChars
                /\ (e = Len(text) \/ text[e + 1] \notin IdentChars)
    IN  SubSeq(text, p + 1, e)

\* no token of the text is a key of the mapping
NoTokenMatches(text, params_dict) ==
    \A p \in 1..Len(text) :
        text[p] = "$" =>
            \A i \in 1..Len(params_dict) : params_dict[i].key # TokenName(text, p)

\* C19: the substitution leaves unmatched tokens untouched: a text or attribute
\* value in which no token $t (t the longest run of identifier characters after
\* '$') is a key comes out unchanged, also when t begins with a key.
C19_UnmatchedUntouched ==
    TreeVisited =>
        \A i \in 1..Len(xml.tree) :
            /\ NoTokenMatches(xml.tree[i].text, xmlcall.params_dict)
                  => xmlcall.tree[i].text = xml.tree[i].text
            /\ \A k \in 1..Len(xml.tree[i].attrib) :
                  NoTokenMatches(xml.tree[i].attrib[k], xmlcall.params_dict)
                      => xmlcall.tree[i].attrib[k] = xml.tree[i].attrib[k]

\* C20: both functions return the empty string and raise nothing when the
\* template is missing, when it is not well-formed and when writing the
\* destination fails.
C20_FailuresGiveEmptyString ==
    (/\ xmlcall.fn # "none"
     /\ \/ ~xml.exists
        \/ ~xml.wellformed
        \/ (xmlcall.write_attempted /\ xmlcall.output_file_path = "unwritable"))
    => xmlcall.ret = "" /\ ~xmlcall.raised

\* witness of C20: replace_xml_parameters has substituted a template and
\* failed to write it
C20_Witness ==
    /\ xmlcall.fn = "replace_xml_parameters"
    /\ xml.exists /\ xml.wellformed
    /\ xmlcall.write_attempted
    /\ xmlcall.output_file_path = "unwritable"
    /\ xmlcall.ret = ""

\* ------------------------------------------------------ the target dates

\* datetime.date: the days of a month
IsLeap(year) == (year % 4 = 0 /\ year % 100 # 0) \/ year % 400 = 0
DaysInMonth(year, month) ==
    IF month = 2 THEN (IF IsLeap(year) THEN 29 ELSE 28)
    ELSE IF month \in {4, 6, 9, 11} THEN 30 ELSE 31

\* datetime.date(year, month, day)
Date(year, month, day) == [year |-> year, month |-> month, day |-> day]

\* every execution date of a common year and of a leap year
Dates ==
    UNION {{Date(y, m, d) : d \in 1..DaysInMonth(y, m)} : y \in {2023, 2024}, m \in 1..12}

\* date - datetime.timedelta(days=1)
DayBefore(date) ==
    IF date.day > 1 THEN Date(date.year, date.month, date.day - 1)
    ELSE IF date.month > 1
    THEN Date(date.year, date.month - 1, DaysInMonth(date.year, date.month - 1))
    ELSE Date(date.year - 1, 12, 31)

\* date - datetime.timedelta(days=n)
RECURSIVE MinusDays(_, _)
MinusDays(date, n) == IF n = 0 THEN date ELSE MinusDays(DayBefore(date), n - 1)

\* get_target_date(current_date): the date in the NDVI filename
get_target_date(current_date) ==
    IF current_date.day \in 1..10
    THEN MinusDays(Date(current_date.year, current_date.month, 1), 10)
    ELSE IF current_date.day \in 11..20
    THEN Date(current_date.year, current_date.month, 1)
    ELSE Date(current_date.year, current_date.month, 11)

\* get_fapar_target_date(current_date): the date in the FAPAR, FCOVER, LAI and
\* DMP filenames
get_fapar_target_date(current_date) ==
    IF current_date.day \in 1..11
    THEN MinusDays(Date(current_date.year, current_date.month, 1), 1)
    ELSE IF current_date.day \in 12..21
    THEN Date(current_date.year, current_date.month, 10)
    ELSE Date(current_date.year, current_date.month, 20)

\* state before any target date is computed
NoTarget(date) == [fn |-> "none", current_date |-> date, target_date |-> date]

InitDates ==
    \E date \in Dates : cal = NoTarget(date)

\* run_ndvi_clipper: target_date = get_target_date(today)
NdviTargetDate ==
    /\ cal.fn = "none"
    /\ cal' = [cal EXCEPT !.fn = "get_target_date",
                          !.target_date = get_target_date(cal.current_date)]
    /\ UNCHANGED <<clipVars, ledger, ledgerVars, driverVars, qlVars, xmlVars, pipe>>

\* run_dmp_clipper, run_vegetation_properties_clipper:
\* target_date = get_fapar_target_date(today)
FaparTargetDate ==
    /\ cal.fn = "none"
    /\ cal' = [cal EXCEPT !.fn = "get_fapar_target_date",
                          !.target_date = get_fapar_target_date(cal.current_date)]
    /\ UNCHANGED <<clipVars, ledger, ledgerVars, driverVars, qlVars, xmlVars, pipe>>

NextDates == NdviTargetDate \/ FaparTargetDate

\* ---------------------------------------------- the target dates: claims

\* date a is not later than date b
NotLater(a, b) ==
    \/ a.year < b.year
    \/ a.year = b.year /\ a.month < b.month
    \/ a.year = b.year /\ a.month = b.month /\ a.day <= b.day

\* C26: for every execution date, the NDVI target date get_target_date computes
\* is a dekad boundary (its day of month is 1, 11 or 21) and is not later than
\* the execution date.
C26_TargetIsDekadStart ==
    cal.fn = "get_target_date" =>
        /\ cal.target_date.day \in {1, 11, 21}
        /\ NotLater(cal.target_date, cal.current_date)

\* ---------------------------------------------------- the product pipeline

\* the qlDict thumbnail_view of the LAI module builds: no source range, no
\* flag keys
LaiThumbnailDict ==
    [ThumbnailDict EXCEPT !.ql_Max = 210, !.ql_BandName = "LAI",
                          !.has = {"gdal_open_option"}]

\* what gdal is given when the clip did not finish: nothing it can open
NoBand == [exists |-> FALSE, valid_range |-> None, pixels |-> <<>>, flags |-> <<>>]

\* the run before its first step: directory_name is made and empty. The
\* inputs of a run are the source file, the band gdal finds in a finished clip,
\* the XML template, whether the description can be written and whether the
\* archive can be
InitPipeline ==
    \E source \in {SrcFile(f, MaxLen, MaxLen, GridVariable) : f \in Faults},
       band \in {f \in QlFiles : /\ f.exists
                                 /\ f.pixels = [i \in 1..MaxPixels |-> 125]
                                 /\ f.flags = [i \in 1..MaxPixels |-> 0]},
       template \in {[exists |-> TRUE, wellformed |-> TRUE,
                      tree |-> [i \in 1..2 |-> Element("text", <<"$", "a">>)]],
                     [exists |-> TRUE, wellformed |-> FALSE, tree |-> NoTree],
                     [exists |-> FALSE, wellformed |-> FALSE, tree |-> NoTree]},
       destination \in {"writable", "unwritable"}, zip_ok \in BOOLEAN :
        pipe = [step |-> "start", source |-> source, band |-> band,
                template |-> template, destination |-> destination,
                zip_ok |-> zip_ok, dir |-> {}, failed |-> {}, stopped |-> FALSE,
                zip |-> None, recorded |-> FALSE]

\* clip_all_vars_netcdf4(filepathname, output_file, origin, extent, data_vars):
\* nothing of the call is looked at afterwards
PipelineClip ==
    /\ pipe.step = "start"
    /\ LET origin_lat == pipe.source.lat[1]
           origin_lon == pipe.source.lon[1]
           c == ClipCall(pipe.source,
                         [NoClip EXCEPT !.mode = "origin",
                                        !.origin_lat = origin_lat,
                                        !.origin_lon = origin_lon,
                                        !.clip_width = MaxLen, !.clip_height = MaxLen],
                         OriginExtentWindow(pipe.source.lat, pipe.source.lon,
                                            origin_lat, origin_lon, MaxLen, MaxLen),
                         TRUE, TRUE)
       IN  pipe' = [pipe EXCEPT
                      !.step = IF c.propagated THEN "over" ELSE "clipped",
                      !.stopped = c.propagated,
                      !.dir = IF c.status = "ok" THEN {"nc"} ELSE {},
                      !.failed = IF c.status = "ok" THEN {} ELSE {"clip"}]
    /\ UNCHANGED <<clipVars, ledger, ledgerVars, driverVars, qlVars, xmlVars, cal>>

\* thumbnail_view(output_file, thumbFilename, colorTable): createQuicklook is
\* called on the clip and its return value is dropped
PipelineQuicklook ==
    /\ pipe.step = "clipped"
    /\ LET r == createQuicklook(LaiThumbnailDict,
                                IF "nc" \in pipe.dir THEN pipe.band ELSE NoBand)
       IN  pipe' = [pipe EXCEPT
                      !.step = "quicklook",
                      !.dir = IF r.tiff.written THEN pipe.dir \cup {"tiff"} ELSE pipe.dir,
                      !.failed = IF r.ret = "True" THEN pipe.failed
                                 ELSE pipe.failed \cup {"quicklook"}]
    /\ UNCHANGED <<clipVars, ledger, ledgerVars, driverVars, qlVars, xmlVars, cal>>

\* main_modify_XML(date_str, ql_filename, destination_xml, params_dict,
\* xml_file_path): the result of replace_xml_parameters_lxml is printed
PipelineXml ==
    /\ pipe.step = "quicklook"
    /\ LET params_dict == <<[key |-> <<"a">>, value |-> PyStr(<<"x">>)]>>
           r == replace_xml_parameters_lxml(pipe.template, params_dict, pipe.destination)
       IN  pipe' = [pipe EXCEPT
                      !.step = IF r.raised THEN "over" ELSE "xml",
                      !.stopped = r.raised,
                      !.dir = IF r.written THEN pipe.dir \cup {"xml"} ELSE pipe.dir,
                      !.failed = IF r.written THEN pipe.failed
                                 ELSE pipe.failed \cup {"xml"}]
    /\ UNCHANGED <<clipVars, ledger, ledgerVars, driverVars, qlVars, xmlVars, cal>>

\* zip_files_with_prefix(directory_name, output_zip_name + '.zip', prefix):
\* whatever is in the directory goes to the archive, an exception is printed
PipelineZip ==
    /\ pipe.step = "xml"
    /\ pipe' = [pipe EXCEPT
                  !.step = "zipped",
                  !.zip = IF pipe.zip_ok THEN Some(pipe.dir) ELSE None,
                  !.dir = {},
                  !.failed = IF pipe.zip_ok THEN pipe.failed
                             ELSE pipe.failed \cup {"zip"}]
    /\ UNCHANGED <<clipVars, ledger, ledgerVars, driverVars, qlVars, xmlVars, cal>>

\* what the clipping function hands back to the driver: the path of the
\* archive of its run, which exists or not
PipelineResult(zip) == IF zip # None THEN "zip_exists" ELSE "zip_missing"

\* run_clipper_process after the call: the source filename is recorded if the
\* archive exists
PipelineRecord ==
    /\ pipe.step = "zipped"
    /\ pipe' = [pipe EXCEPT
                  !.step = "over",
                  !.recorded = LedgersUpdated(run_clipping(TRUE, PipelineResult(pipe.zip)))]
    /\ UNCHANGED <<clipVars, ledger, ledgerVars, driverVars, qlVars, xmlVars, cal>>

NextPipeline ==
    PipelineClip \/ PipelineQuicklook \/ PipelineXml \/ PipelineZip \/ PipelineRecord

\* --------------------------------------------- the product pipeline: claims

\* C29: a source file is recorded in the processed ledger only if every step
\* of its pipeline succeeded (clip, quicklook, XML and zip): a failure of the
\* clip, the quicklook or the XML step leaves the unit unrecorded.
C29_RecordedOnlyIfAllSteps ==
    pipe.recorded => pipe.failed = {}

\* ---------------------------------------------------------- specifications

\* each part of the program is checked on its own, the others at rest
IdleClip == src = SrcFile("none", 0, 0, GridVariable) /\ clip = NoClip
IdleLedger == written = {} /\ loaded = NotLoaded
IdleQl ==
    /\ nc = [exists |-> FALSE, valid_range |-> None, pixels |-> <<>>, flags |-> <<>>]
    /\ ql = NoQuicklook
IdleXml ==
    /\ xml = [exists |-> FALSE, wellformed |-> FALSE, tree |-> NoTree]
    /\ xmlcall = NoSubstitution
IdleDates == cal = NoTarget(Date(2024, 1, 1))
IdlePipeline ==
    pipe = [step |-> "over", source |-> SrcFile("none", 0, 0, GridVariable),
            band |-> NoBand,
            template |-> [exists |-> FALSE, wellformed |-> FALSE, tree |-> NoTree],
            destination |-> "writable", zip_ok |-> FALSE, dir |-> {}, failed |-> {},
            stopped |-> FALSE, zip |-> None, recorded |-> FALSE]

ClipStart == InitClip /\ IdleLedger /\ InitDriver /\ IdleQl /\ IdleXml /\ IdleDates /\ IdlePipeline
LedgerStart ==
    InitLedger /\ IdleClip /\ InitDriver /\ IdleQl /\ IdleXml /\ IdleDates /\ IdlePipeline
DriverStart ==
    InitDriver /\ IdleClip /\ IdleLedger /\ IdleQl /\ IdleXml /\ IdleDates /\ IdlePipeline
QlStart == InitQl /\ IdleClip /\ IdleLedger /\ InitDriver /\ IdleXml /\ IdleDates /\ IdlePipeline
VarStart == InitVars /\ IdleLedger /\ InitDriver /\ IdleQl /\ IdleXml /\ IdleDates /\ IdlePipeline
XmlStart == InitXml /\ IdleClip /\ IdleLedger /\ InitDriver /\ IdleQl /\ IdleDates /\ IdlePipeline
PipelineStart ==
    InitPipeline /\ IdleClip /\ IdleLedger /\ InitDriver /\ IdleQl /\ IdleXml /\ IdleDates
DatesStart == InitDates /\ IdleClip /\ IdleLedger /\ InitDriver /\ IdleQl /\ IdleXml /\ IdlePipeline

SpecClip == ClipStart /\ [][NextClip]_vars
SpecLedger == LedgerStart /\ [][NextLedger]_vars
SpecDriver == DriverStart /\ [][NextDriver]_vars
SpecRerun == DriverStart /\ [][NextRerun]_vars
SpecQl == QlStart /\ [][NextQl]_vars
SpecVars == VarStart /\ [][NextClip]_vars
SpecXml == XmlStart /\ [][NextXml]_vars
SpecDates == DatesStart /\ [][NextDates]_vars
SpecPipeline == PipelineStart /\ [][NextPipeline]_vars

Init == InitClip /\ IdleLedger /\ InitDriver /\ InitQl /\ InitXml /\ InitDates /\ InitPipeline
Next ==
    NextClip \/ NextLedger \/ NextRerun \/ NextQl \/ NextXml \/ NextDates \/ NextPipeline
Spec == Init /\ [][Next]_vars

====
